---------------------------- MODULE Spec2Model ----------------------------
(***************************************************************************)
(* A model of the OfflinePhotoEditor image-processing service             *)
(* (src/src/services/imageProcessor.ts), of the hook that drives it       *)
(* (src/src/hooks/useImageProcessing.ts) and of the error handler         *)
(* (src/src/utils/errorHandler.ts, src/src/store/slices/errorSlice.ts).   *)
(*                                                                         *)
(* JavaScript runs one task at a time: the code between two awaits is one  *)
(* atomic step.  Every action below is such a step: the resumption of one  *)
(* await followed by the synchronous code up to the next await.           *)
(***************************************************************************)
EXTENDS Integers, Sequences, FiniteSets, TLC

\* ------------------------------------------------------------------ bounds

\* Longest pending queue explored.
MaxQueue == 3
\* Concurrent processQueue invocations the model has room for (the code is
\* meant to run one).
MaxLoops == 2
\* Longest operation list handed to processImage.
MaxOps == 2

\* Errors handed to handleError in one behaviour.
MaxErrors == 1

\* Timers of the hook that can be pending at once.
MaxTimers == 2

\* Largest image width and height; crop requests range one beyond it.
MaxDim == 3

\* Longest list of images handed to processBatch directly.
MaxBatch == 2

\* Largest maxRetries handed to retryOperation.
MaxRetries == 2

\* ------------------------------------------------------ image references

\* An image reference is a sequence of name parts; a last part that starts
\* with a dot is the file extension.  <<>> is the empty string.
EmptyUri == <<>>
LocalUri == <<"file:///photo", ".jpg">>
PhotosUri == <<"ph://asset">>

Extensions == {".jpg", ".png"}

\* uri.startsWith('http://') || ... || uri.startsWith('ph://')
IsRemoteOrLibrary(uri) == uri # <<>> /\ uri[1] = "ph://asset"

\* uri.replace(/(\.[^.]+)$/, `${tag}$1`): the tag goes before the extension;
\* a reference without an extension is returned unchanged.
InsertBeforeExtension(uri, tag) ==
    IF uri # <<>> /\ uri[Len(uri)] \in Extensions
    THEN SubSeq(uri, 1, Len(uri) - 1) \o <<tag, uri[Len(uri)]>>
    ELSE uri

\* ------------------------------------------------------------- operations

Rotate(a) == [type |-> "rotate", angle |-> a]
Flip(d) == [type |-> "flip", direction |-> d]
Crop == [type |-> "crop"]
Resize == [type |-> "resize"]

\* `_rotated_${angle}`
RotatedTag(angle) ==
    CASE angle = 90 -> "_rotated_90"
      [] angle = 180 -> "_rotated_180"
      [] angle = 270 -> "_rotated_270"

\* `_flipped_${direction}`
FlippedTag(direction) ==
    CASE direction = "horizontal" -> "_flipped_horizontal"
      [] direction = "vertical" -> "_flipped_vertical"

\* rotateImage: angle 0 and angles other than 90/180/270 return the input;
\* the other three copy the file to a name tagged with the angle.
RotateImage(uri, angle) ==
    IF angle = 0 THEN uri
    ELSE IF angle \in {90, 180, 270}
         THEN InsertBeforeExtension(uri, RotatedTag(angle))
         ELSE uri

\* flipImage: copies the file to a name tagged with the direction.
FlipImage(uri, direction) == InsertBeforeExtension(uri, FlippedTag(direction))

\* cropImage: the reference the native cropper returns, a new file made
\* from the input.
CropImage(uri) == <<"cropped">> \o uri

\* applyOperation: the switch on operation.type.  The mocked operations
\* (resize, filter, brightness, ...) and the default branch return the input.
ApplyOperation(imageUri, operation) ==
    CASE operation.type = "crop" -> CropImage(imageUri)
      [] operation.type = "rotate" -> RotateImage(imageUri, operation.angle)
      [] operation.type = "flip" -> FlipImage(imageUri, operation.direction)
      [] OTHER -> imageUri

\* Whether applying the operation can reject: crop, flip and a rotate by a
\* non-zero angle call native code inside try/catch and rethrow; the mocks
\* only sleep.
OperationCanFail(operation) ==
    \/ operation.type \in {"crop", "flip"}
    \/ operation.type = "rotate" /\ operation.angle # 0

\* ----------------------------------------------------------- processImage

\* The message of the Error processImage rejects with:
\* `Image processing failed: ${error.message}` as <<prefix, inner message>>.
FailurePrefix == "Image processing failed:"

\* A progress value counted from the operations already applied.
ProgressEvent_ZeroBased(k, n) ==
    [ev |-> "progress", i |-> k, num |-> (k - 1) * 100, den |-> n]

\* options.onProgress?.(((i + 1) / operations.length) * 100), for the k-th
\* operation (k = i + 1) of n.
ProgressEvent(k, n) == [ev |-> "progress", i |-> k, num |-> k * 100, den |-> n]
ApplyEvent(k, in) == [ev |-> "apply", i |-> k, uri |-> in]
AppliedEvent(k, out) == [ev |-> "applied", i |-> k, uri |-> out]
OutputEvent(in) == [ev |-> "output", i |-> 0, uri |-> in]

\* A catch block that rethrows the error it caught, unwrapped.
Rejected_Unwrapped(c, inner) ==
    [c EXCEPT !.pc = "rejected", !.error = <<inner>>]

\* The catch block of processImage: the promise rejects with the wrapped
\* message and no result.
Rejected(c, inner) ==
    [c EXCEPT !.pc = "rejected", !.error = <<FailurePrefix, inner>>]

\* A call of processImage up to its first await.  validateImageUri throws at
\* once on an empty reference; otherwise it awaits the existence check.
\* notify says whether options.onProgress is given.
StartProcessImage(uri, ops, thumb, notify) ==
    LET c == [imageUri |-> uri, operations |-> ops, generateThumbnail |-> thumb,
              onProgress |-> notify,
              pc |-> "validate", i |-> 0, processedUri |-> uri,
              finalUri |-> EmptyUri, thumbnailUri |-> EmptyUri,
              log |-> <<>>, result |-> <<>>, error |-> <<>>]
    IN  IF uri = EmptyUri THEN Rejected(c, "Invalid image URI") ELSE c

\* The head of the for loop with i = k - 1: past the last operation the
\* loop ends and generateOutput is called; otherwise onProgress, if given,
\* is called with ((i + 1) / operations.length) * 100 and then applyOperation.
LoopHead(c, k, progressThrows) ==
    LET n == Len(c.operations)
        called == IF c.onProgress THEN <<ProgressEvent(k, n)>> ELSE <<>>
    IN  IF k > n
        THEN [c EXCEPT !.pc = "output", !.log = Append(@, OutputEvent(c.processedUri))]
        ELSE IF progressThrows
             THEN Rejected([c EXCEPT !.i = k, !.log = @ \o called],
                           "onProgress threw")
             ELSE [c EXCEPT !.pc = "apply", !.i = k,
                            !.log = @ \o called
                                      \o <<ApplyEvent(k, c.processedUri)>>]

\* The awaits of processImage that can reject, by where the call stands.
\* Image.getSize never rejects (it resolves a fallback size), so a remote or
\* library reference passes validation; a local one needs RNFS.exists and
\* RNFS.stat.  generateOutput and generateThumbnail only sleep.
StepCanFail(c) ==
    CASE c.pc = "validate" -> ~IsRemoteOrLibrary(c.imageUri)
      [] c.pc = "info" -> ~IsRemoteOrLibrary(c.imageUri)
      [] c.pc = "apply" -> OperationCanFail(c.operations[c.i])
      [] c.pc = "finalInfo" -> ~IsRemoteOrLibrary(c.finalUri)
      [] OTHER -> FALSE

\* Whether the step that follows a success calls onProgress.
StepCallsProgress(c) ==
    /\ c.onProgress
    /\ \/ c.pc = "info" /\ Len(c.operations) >= 1
       \/ c.pc = "apply" /\ c.i < Len(c.operations)

Outcomes(c) ==
    {"ok"} \cup (IF StepCanFail(c) THEN {"fail"} ELSE {})
           \cup (IF StepCallsProgress(c) THEN {"progressThrows"} ELSE {})

FailureMessage(c) ==
    CASE c.pc = "validate" -> "Image file does not exist"
      [] c.pc = "apply" -> "Failed to apply operation"
      [] OTHER -> "Failed to get image info"

\* The ProcessingResult built at the end of processImage.
ProcessingResult(c) ==
    [originalUri |-> c.imageUri, processedUri |-> c.finalUri,
     thumbnailUri |-> c.thumbnailUri, operations |-> c.operations]

Settled(c) == c.pc \in {"resolved", "rejected"}

\* The events of one kind in a call's log, in order.
EventsOf(c, kind) == SelectSeq(c.log, LAMBDA e : e.ev = kind)

\* An application that always starts from the original image.
ApplyNext_FromOriginal(c) == ApplyOperation(c.imageUri, c.operations[c.i])

\* processedUri = await this.applyOperation(processedUri, operation)
ApplyNext(c) == ApplyOperation(c.processedUri, c.operations[c.i])

\* One step of a processImage call: the pending await settles with the
\* outcome and the code runs to the next await.
ProcessImageStep(c, outcome) ==
    IF outcome = "fail" THEN Rejected(c, FailureMessage(c))
    ELSE CASE c.pc = "validate" -> [c EXCEPT !.pc = "info"]
           [] c.pc = "info" -> LoopHead(c, 1, outcome = "progressThrows")
           [] c.pc = "apply" ->
                LET out == ApplyNext(c)
                    d == [c EXCEPT !.processedUri = out,
                                   !.log = Append(@, AppliedEvent(c.i, out))]
                IN  LoopHead(d, c.i + 1, outcome = "progressThrows")
           [] c.pc = "output" ->
                [c EXCEPT !.finalUri = c.processedUri,
                          !.pc = IF c.generateThumbnail THEN "thumbnail"
                                 ELSE "finalInfo"]
           [] c.pc = "thumbnail" ->
                [c EXCEPT !.thumbnailUri = c.finalUri, !.pc = "finalInfo"]
           [] c.pc = "finalInfo" ->
                [c EXCEPT !.pc = "resolved", !.result = <<ProcessingResult(c)>>]

\* --------------------------------------------------------------- errors

\* The values a caller can hand to handleError.  A string is the sequence
\* of its fragments; s.includes(k) holds when k is one of them.
Undefined == [t |-> "undefined"]
Null == [t |-> "null"]
Str(fragments) == [t |-> "string", v |-> fragments]
Num(n) == [t |-> "number", v |-> n]
Obj(code, message) == [t |-> "object", code |-> code, message |-> message]

\* error?.code and error?.message: undefined on null and undefined, and on
\* a primitive, which has neither property.
GetProp(error, name) ==
    IF error.t = "object" THEN error[name] ELSE Undefined

\* value?.includes(keyword): undefined on null and undefined, the substring
\* test on a string, and a TypeError on a value that has no includes method.
Includes(value, keyword) ==
    IF value.t \in {"undefined", "null"} THEN "no"
    ELSE IF value.t = "string"
         THEN IF \E k \in 1..Len(value.v) : value.v[k] = keyword
              THEN "yes" ELSE "no"
         ELSE "TypeError"

\* The tests of classifyError in their order: code, keyword, error type.
ClassifyRules ==
    << <<"storage-full", "storage", "storage_full">>,
       <<"file-too-large", "large", "large_image">>,
       <<"export-failed", "export", "export_failed">>,
       <<"permission-denied", "permission", "permission_denied">>,
       <<"network-error", "network", "network_error">>,
       <<"iap-failed", "purchase", "iap_failed">> >>

RECURSIVE ClassifyFrom(_, _)
ClassifyFrom(error, k) ==
    IF k > Len(ClassifyRules) THEN "unknown"
    ELSE IF GetProp(error, "code") = Str(<<ClassifyRules[k][1]>>)
         THEN ClassifyRules[k][3]
         ELSE LET found == Includes(GetProp(error, "message"), ClassifyRules[k][2])
              IN  IF found = "TypeError" THEN "TypeError"
                  ELSE IF found = "yes" THEN ClassifyRules[k][3]
                  ELSE ClassifyFrom(error, k + 1)

\* classifyError(error): the error type, or "TypeError" when the
\* classification throws.
ClassifyError(error) == ClassifyFrom(error, 1)

\* getErrorDetails(type), for the types classifyError returns.
GetErrorDetails(type) ==
    [severity |-> IF type \in {"storage_full", "permission_denied", "iap_failed"}
                  THEN "high" ELSE "medium",
     autoRetry |-> type \in {"export_failed", "network_error", "unknown"}]

\* createAppError(type, originalError, context), without the identifier,
\* the timestamp and the texts.
CreateAppError(type) ==
    [type |-> type,
     severity |-> GetErrorDetails(type).severity,
     autoRetry |-> GetErrorDetails(type).autoRetry]

HistoryLimit == 50

\* setError keeping the last fifty entries of the array instead of the first.
SetError_KeepsOldest(state, appError) ==
    LET history == <<appError>> \o state.errorHistory
    IN  [state EXCEPT !.currentError = <<appError>>,
                      !.errorHistory = IF Len(history) > HistoryLimit
                                       THEN SubSeq(history, 2, Len(history))
                                       ELSE history]

\* The reducer setError.
SetError(state, appError) ==
    LET history == <<appError>> \o state.errorHistory
    IN  [state EXCEPT !.currentError = <<appError>>,
                      !.errorHistory = IF Len(history) > HistoryLimit
                                       THEN SubSeq(history, 1, HistoryLimit)
                                       ELSE history]

\* ------------------------------------------------------------- progress

RECURSIVE GCD(_, _)
GCD(a, b) == IF b = 0 THEN a ELSE GCD(b, a % b)

\* The number num / den, in lowest terms.
Percent(num, den) ==
    LET g == GCD(num, den)
    IN  [num |-> num \div g, den |-> den \div g]

\* Math.round(value).
Round(value) == (2 * value.num + value.den) \div (2 * value.den)

\* ------------------------------------------------------------------ state

VARIABLES
    processingQueue,   \* ImageProcessor.processingQueue: the pending jobs
    isProcessing,      \* ImageProcessor.isProcessing
    loops,             \* the invocations of processQueue, by slot
    fg,                \* the caller's own processImage or processBatch call
    hook,              \* useImageProcessing: its state and pending timers
    errorState,        \* the store's error slice
    lastHandled        \* the last handleError call and how it ended

procVars == <<processingQueue, isProcessing, loops>>
\* What the queue's operations leave alone.
callerVars == <<fg, hook, errorState, lastHandled>>
vars == <<processingQueue, isProcessing, loops, fg, hook, errorState, lastHandled>>

Priorities == {"high", "normal", "low"}

LoopIds == 1..MaxLoops

IdleLoop == [pc |-> "idle"]

\* The operation lists queued jobs carry.
JobOperations == {<<Rotate(90)>>}

\* A loop is active from its start until it returns or an exception leaves
\* it: while it awaits processImage and while it runs a job's callbacks.
Active(w) == loops[w].pc \in {"awaiting", "callback"}
ActiveLoops == {w \in LoopIds : Active(w)}
\* The loops whose job's processImage call has not settled.
Processing == {w \in LoopIds : loops[w].pc = "awaiting"}
Pending == {processingQueue[k] : k \in 1..Len(processingQueue)}
InFlight == {loops[w].job : w \in ActiveLoops}

NoCall == [kind |-> "idle"]

Init ==
    /\ processingQueue = <<>>
    /\ isProcessing = FALSE
    /\ loops = [w \in LoopIds |-> IdleLoop]
    /\ fg = NoCall
    /\ hook = [isProcessing |-> FALSE, progress |-> Percent(0, 1),
               currentOperation |-> <<"">>, timers |-> 0]
    /\ errorState = [currentError |-> <<>>, errorHistory |-> <<>>,
                     isLoading |-> FALSE]
    /\ lastHandled = <<>>

\* ------------------------------------------------------------ the queue

\* `job_${Date.now()}_${random}`: a fresh identifier, later than every
\* identifier in use.  The model numbers the jobs that exist by arrival,
\* 1, 2, ..., and closes the gap when a job is discarded.
NextJobId == Cardinality(Pending \cup InFlight) + 1

Renumber(job, gone) == [job EXCEPT !.id = IF @ > gone THEN @ - 1 ELSE @]

\* processingQueue.findIndex(j => j.priority === 'low'): the 0-based index of
\* the first low job, -1 when there is none.
FindIndexLow(queue) ==
    LET lows == {k \in 1..Len(queue) : queue[k].priority = "low"}
    IN  IF lows = {} THEN -1
        ELSE (CHOOSE k \in lows : \A m \in lows : k <= m) - 1

\* A splice that deletes the element at the index: splice(index, 1, job).
Splice_Replacing(queue, index, job) ==
    SubSeq(queue, 1, index) \o <<job>> \o SubSeq(queue, index + 2, Len(queue))

\* processingQueue.splice(index, 0, job)
Splice(queue, index, job) ==
    SubSeq(queue, 1, index) \o <<job>> \o SubSeq(queue, index + 1, Len(queue))

\* An insertion that ignores the priority: always push.
InsertByPriority_AlwaysPush(queue, job) == Append(queue, job)

\* queueProcessing, "Add to queue based on priority".
InsertByPriority(queue, job) ==
    IF job.priority = "high" THEN <<job>> \o queue
    ELSE IF job.priority = "low" THEN Append(queue, job)
    ELSE LET insertIndex == FindIndexLow(queue)
         IN  IF insertIndex = -1 THEN Append(queue, job)
             ELSE Splice(queue, insertIndex, job)

\* const job = this.processingQueue.shift()!
ShiftJob(queue) == Head(queue)

\* The loop slot after `await this.processImage(job.imageUri, job.operations,
\* {priority, onProgress})` has been entered for the job.
Awaiting(job) ==
    [pc |-> "awaiting", job |-> job,
     call |-> StartProcessImage(job.imageUri, job.operations, FALSE, TRUE)]

\* A loop that is an `if`: it leaves after one job whatever is pending.
WhileHead_OneJob(w, q, ls) ==
    /\ processingQueue' = q
    /\ loops' = [ls EXCEPT ![w] = IdleLoop]
    /\ isProcessing' = FALSE

\* The head of the while loop of processQueue in slot w, the queue being q
\* and the other slots ls: shift the first job and call processImage on it,
\* or leave the loop and clear the flag.
WhileHead(w, q, ls) ==
    IF Len(q) > 0
    THEN /\ processingQueue' = Tail(q)
         /\ loops' = [ls EXCEPT ![w] = Awaiting(ShiftJob(q))]
         /\ UNCHANGED isProcessing
    ELSE /\ processingQueue' = q
         /\ loops' = [ls EXCEPT ![w] = IdleLoop]
         /\ isProcessing' = FALSE

\* A processQueue that enters the loop without setting the flag.
ProcessQueueBegin_NoFlag(q) ==
    /\ \E w \in LoopIds :
          /\ loops[w].pc = "idle"
          /\ \A v \in 1..(w - 1) : loops[v].pc # "idle"
          /\ processingQueue' = Tail(q)
          /\ loops' = [loops EXCEPT ![w] = Awaiting(ShiftJob(q))]
    /\ UNCHANGED isProcessing

\* processQueue past its guard, the queue being q: set the flag and enter
\* the loop (in the first free slot).
ProcessQueueBegin(q) ==
    /\ \E w \in LoopIds :
          /\ loops[w].pc = "idle"
          /\ \A v \in 1..(w - 1) : loops[v].pc # "idle"
          /\ processingQueue' = Tail(q)
          /\ loops' = [loops EXCEPT ![w] = Awaiting(ShiftJob(q))]
    /\ isProcessing' = TRUE

\* processQueue as queueProcessing calls it, the queue being q.
ProcessQueue(q) ==
    IF Len(q) = 0 \/ isProcessing
    THEN processingQueue' = q /\ UNCHANGED <<isProcessing, loops>>
    ELSE ProcessQueueBegin(q)

\* The job record queueProcessing builds.
FullJob(uri, ops, priority, tracked) ==
    [id |-> NextJobId, imageUri |-> uri, operations |-> ops,
     priority |-> priority, tracked |-> tracked]

\* queueProcessing(job): insert by priority, then start the worker unless
\* it is running.
Enqueue(job) ==
    LET q == InsertByPriority(processingQueue, job)
    IN  IF ~isProcessing
        THEN ProcessQueue(q)
        ELSE processingQueue' = q /\ UNCHANGED <<isProcessing, loops>>

\* imageProcessor.queueProcessing(job), called with callbacks that leave
\* the caller's state alone.
QueueProcessing(uri, ops, priority, tracked) ==
    /\ Len(processingQueue) < MaxQueue
    /\ Enqueue(FullJob(uri, ops, priority, tracked))
    /\ UNCHANGED callerVars

\* The job's processImage call takes one step, with one of the outcomes.
JobStepWith(w, outcomes) ==
    /\ loops[w].pc = "awaiting"
    /\ ~Settled(loops[w].call)
    /\ \E o \in Outcomes(loops[w].call) \cap outcomes :
          loops' = [loops EXCEPT ![w].call = ProcessImageStep(@, o)]
    /\ UNCHANGED <<processingQueue, isProcessing>>
    /\ UNCHANGED callerVars

JobStep(w) == JobStepWith(w, {"ok", "fail", "progressThrows"})

\* The loop slot while the job's terminal callbacks run; threw says that
\* the last of them threw.
InCallback(l, cbs, threw) ==
    [pc |-> "callback", job |-> l.job, call |-> l.call, cbs |-> cbs, threw |-> threw]

\* processImage resolved: job.onComplete(result) is called and returns.
JobCompletes(w) ==
    /\ loops[w].pc = "awaiting"
    /\ loops[w].call.pc = "resolved"
    /\ loops' = [loops EXCEPT ![w] = InCallback(@, <<"onComplete">>, FALSE)]
    /\ UNCHANGED <<processingQueue, isProcessing>>
    /\ UNCHANGED callerVars

\* processImage rejected: the catch block calls job.onError(error), which
\* returns.
JobFails(w) ==
    /\ loops[w].pc = "awaiting"
    /\ loops[w].call.pc = "rejected"
    /\ loops' = [loops EXCEPT ![w] = InCallback(@, <<"onError">>, FALSE)]
    /\ UNCHANGED <<processingQueue, isProcessing>>
    /\ UNCHANGED callerVars

\* job.onComplete throws inside the try block: the catch block calls
\* job.onError with what it threw, and that returns.
JobCompleteThrows(w) ==
    /\ loops[w].pc = "awaiting"
    /\ loops[w].call.pc = "resolved"
    /\ loops' = [loops EXCEPT ![w] =
                    InCallback(@, <<"onComplete", "onError">>, FALSE)]
    /\ UNCHANGED <<processingQueue, isProcessing>>
    /\ UNCHANGED callerVars

\* job.onError throws, after a rejection or after a throwing onComplete.
JobErrorThrows(w) ==
    /\ loops[w].pc = "awaiting"
    /\ Settled(loops[w].call)
    /\ loops' = [loops EXCEPT ![w] =
                    InCallback(@, IF loops[w].call.pc = "resolved"
                                  THEN <<"onComplete", "onError">>
                                  ELSE <<"onError">>, TRUE)]
    /\ UNCHANGED <<processingQueue, isProcessing>>
    /\ UNCHANGED callerVars

\* After the callbacks the job is discarded.  If they returned, the loop
\* goes back to its head; if onError threw, the exception leaves
\* processQueue and `this.isProcessing = false` never runs.
LoopContinues(w) ==
    /\ loops[w].pc = "callback"
    /\ LET gone == loops[w].job.id
           q == [k \in 1..Len(processingQueue) |->
                    Renumber(processingQueue[k], gone)]
           ls == [v \in LoopIds |->
                    IF v # w /\ Active(v)
                    THEN [loops[v] EXCEPT !.job = Renumber(@, gone)]
                    ELSE loops[v]]
       IN  IF loops[w].threw
           THEN /\ processingQueue' = q
                /\ loops' = [ls EXCEPT ![w] = [pc |-> "dead"]]
                /\ UNCHANGED isProcessing
           ELSE WhileHead(w, q, ls)
    /\ UNCHANGED callerVars

\* getProcessingStats(): reads the queue length and the flag.
GetProcessingStats == UNCHANGED procVars

\* A clearCache that drops the pending jobs.
ClearCache_DropsQueue ==
    /\ processingQueue' = <<>>
    /\ UNCHANGED <<isProcessing, loops>>

\* clearCache(): logs.
ClearCache == UNCHANGED procVars

Next ==
    \/ \E p \in Priorities, ops \in JobOperations :
          QueueProcessing(LocalUri, ops, p, FALSE)
    \/ \E w \in LoopIds : JobStep(w)
    \/ \E w \in LoopIds : JobCompletes(w)
    \/ \E w \in LoopIds : JobFails(w)
    \/ \E w \in LoopIds : JobCompleteThrows(w)
    \/ \E w \in LoopIds : JobErrorThrows(w)
    \/ \E w \in LoopIds : LoopContinues(w)

Spec == Init /\ [][Next]_vars

\* ------------------------------------------- processImage called directly

\* The operations a caller hands to processImage, and the lists of them.
Operations == {Rotate(0), Rotate(90), Flip("horizontal"), Crop, Resize}

OperationLists == UNION {[1..n -> Operations] : n \in 0..MaxOps}

ImageUris == {EmptyUri, LocalUri, PhotosUri}

\* imageProcessor.processImage(imageUri, operations, {generateThumbnail,
\* onProgress}).
ProcessImage(uri, ops, thumb, notify) ==
    /\ fg = NoCall
    /\ fg' = [kind |-> "single",
              call |-> StartProcessImage(uri, ops, thumb, notify)]
    /\ UNCHANGED <<procVars, hook, errorState, lastHandled>>

\* The call takes one step.
ProcessImageContinues ==
    /\ fg.kind = "single"
    /\ ~Settled(fg.call)
    /\ \E o \in Outcomes(fg.call) :
          fg' = [fg EXCEPT !.call = ProcessImageStep(@, o)]
    /\ UNCHANGED <<procVars, hook, errorState, lastHandled>>

\* The caller receives the result or the Error.
ProcessImageReturns ==
    /\ fg.kind = "single"
    /\ Settled(fg.call)
    /\ fg' = NoCall
    /\ UNCHANGED <<procVars, hook, errorState, lastHandled>>

NextPipeline ==
    \/ \E uri \in ImageUris, ops \in OperationLists, thumb, notify \in BOOLEAN :
          ProcessImage(uri, ops, thumb, notify)
    \/ ProcessImageContinues
    \/ ProcessImageReturns

PipelineSpec == Init /\ [][NextPipeline]_vars

\* ---------------------------------------------------------- handleError

\* handleError(error, context): classify, build the AppError and dispatch
\* setError; a TypeError thrown by the classification leaves the store as
\* it was and reaches the caller.  HandleErrorIn takes the store as the
\* dispatches before it in the same step left it.
HandleErrorIn(state, error) ==
    LET type == ClassifyError(error)
    IN  IF type = "TypeError"
        THEN /\ lastHandled' = <<[error |-> error, threw |-> TRUE]>>
             /\ errorState' = state
        ELSE /\ lastHandled' = <<[error |-> error, threw |-> FALSE]>>
             /\ errorState' = SetError(state, CreateAppError(type))

HandleError(error) == HandleErrorIn(errorState, error)

\* The Error object a rejected processImage call hands to its caller.
ErrorOf(c) == Obj(Undefined, Str(c.error))

\* ------------------------------------------------- the hook and the store

\* The progress value reported by the step from call c to call d, if any.
Reported(c, d) ==
    LET before == EventsOf(c, "progress")
        after == EventsOf(d, "progress")
    IN  IF Len(after) > Len(before) THEN <<after[Len(after)]>> ELSE <<>>

\* The onProgress callbacks of the hook: setProgress(progressValue) and
\* setCurrentOperation(`${text} ${Math.round(progressValue)}%`).
OnProgress(h, text, reported) ==
    IF reported = <<>> THEN h
    ELSE LET value == Percent(reported[1].num, reported[1].den)
         IN  [h EXCEPT !.progress = value,
                       !.currentOperation = <<text, Round(value)>>]

\* The calls whose rejection the hook has still to hand to handleError.
Unhandled ==
    {w \in LoopIds : loops[w].pc = "awaiting" /\ loops[w].call.pc = "rejected"}
        \cup (IF fg.kind = "hookSingle" /\ fg.call.pc = "rejected"
              THEN {0} ELSE {})

\* The outcomes explored for a step of a call whose failure the hook
\* handles: failures stop once MaxErrors errors are recorded or due.
HookOutcomes ==
    IF Len(errorState.errorHistory) + Cardinality(Unhandled) < MaxErrors
    THEN {"ok", "fail"} ELSE {"ok"}

\* finally { setTimeout(..., 1000) }
SetTimer(h) == [h EXCEPT !.timers = @ + 1]

\* The hook's processImage up to its await.
HookProcessImage(uri, ops) ==
    /\ fg = NoCall
    /\ hook.timers < MaxTimers
    /\ hook' = [hook EXCEPT !.isProcessing = TRUE,
                            !.progress = Percent(0, 1),
                            !.currentOperation = <<"Initializing...">>]
    /\ fg' = [kind |-> "hookSingle",
              call |-> StartProcessImage(uri, ops, FALSE, TRUE)]
    /\ UNCHANGED <<procVars, errorState, lastHandled>>

\* One step of the call the hook awaits; its onProgress does not throw.
HookProcessImageContinues ==
    /\ fg.kind = "hookSingle"
    /\ ~Settled(fg.call)
    /\ \E o \in Outcomes(fg.call) \cap HookOutcomes :
          LET c == ProcessImageStep(fg.call, o)
          IN  /\ fg' = [fg EXCEPT !.call = c]
              /\ hook' = OnProgress(hook, "Processing...", Reported(fg.call, c))
    /\ UNCHANGED <<procVars, errorState, lastHandled>>

\* The hook's processImage after its await: the result, or handleError and
\* null; then the finally block.
HookProcessImageReturns ==
    /\ fg.kind = "hookSingle"
    /\ Settled(fg.call)
    /\ fg' = NoCall
    /\ IF fg.call.pc = "resolved"
       THEN /\ hook' = SetTimer([hook EXCEPT !.currentOperation = <<"Complete">>,
                                             !.progress = Percent(100, 1)])
            /\ UNCHANGED <<errorState, lastHandled>>
       ELSE /\ HandleError(ErrorOf(fg.call))
            /\ hook' = SetTimer(hook)
    /\ UNCHANGED procVars

\* The timer set by a finally block fires.
TimerFires ==
    /\ hook.timers > 0
    /\ hook' = [isProcessing |-> FALSE, progress |-> Percent(0, 1),
                currentOperation |-> <<"">>, timers |-> hook.timers - 1]
    /\ UNCHANGED <<procVars, fg, errorState, lastHandled>>

\* A cancelProcessing that aborts the call in flight and empties the queue.
CancelProcessing_Aborts ==
    /\ hook' = [hook EXCEPT !.isProcessing = FALSE,
                            !.progress = Percent(0, 1),
                            !.currentOperation = <<"Cancelled">>]
    /\ fg' = NoCall
    /\ processingQueue' = <<>>
    /\ UNCHANGED <<isProcessing, loops, errorState, lastHandled>>

\* cancelProcessing(): abortControllerRef.current is never assigned, so
\* nothing is aborted; the three setters run.
CancelProcessing ==
    /\ hook' = [hook EXCEPT !.isProcessing = FALSE,
                            !.progress = Percent(0, 1),
                            !.currentOperation = <<"Cancelled">>]
    /\ UNCHANGED <<procVars, fg, errorState, lastHandled>>

\* The hook's queueProcessing: imageProcessor.queueProcessing with the
\* hook's callbacks, then setCurrentOperation once the identifier is back.
HookQueueProcessing(uri, ops, priority) ==
    /\ Len(processingQueue) < MaxQueue
    /\ Enqueue(FullJob(uri, ops, priority, FALSE))
    /\ hook' = [hook EXCEPT !.currentOperation = <<"Added to processing queue">>]
    /\ UNCHANGED <<fg, errorState, lastHandled>>

\* One step of a queued job's call, with the hook's onProgress.
HookJobStep(w) ==
    /\ loops[w].pc = "awaiting"
    /\ ~Settled(loops[w].call)
    /\ \E o \in Outcomes(loops[w].call) \cap HookOutcomes :
          LET c == ProcessImageStep(loops[w].call, o)
          IN  /\ loops' = [loops EXCEPT ![w].call = c]
              /\ hook' = OnProgress(hook, "Queued processing...",
                                    Reported(loops[w].call, c))
    /\ UNCHANGED <<processingQueue, isProcessing, fg, errorState, lastHandled>>

\* The job's call resolved: the hook's onComplete runs.
HookJobCompletes(w) ==
    /\ loops[w].pc = "awaiting"
    /\ loops[w].call.pc = "resolved"
    /\ loops' = [loops EXCEPT ![w] = InCallback(@, <<"onComplete">>, FALSE)]
    /\ hook' = [hook EXCEPT !.currentOperation = <<"Queued processing complete">>,
                            !.progress = Percent(100, 1)]
    /\ UNCHANGED <<processingQueue, isProcessing, fg, errorState, lastHandled>>

\* The job's call rejected: the hook's onError calls handleError.
HookJobFails(w) ==
    /\ loops[w].pc = "awaiting"
    /\ loops[w].call.pc = "rejected"
    /\ loops' = [loops EXCEPT ![w] = InCallback(@, <<"onError">>, FALSE)]
    /\ HandleError(ErrorOf(loops[w].call))
    /\ UNCHANGED <<processingQueue, isProcessing, fg, hook>>

\* processBatch: the next image's processImage call, without onProgress,
\* or the return of the results once the images are used up.
BatchNext(b) ==
    IF b.k = Len(b.images)
    THEN [b EXCEPT !.pc = "resolved"]
    ELSE [b EXCEPT !.k = @ + 1,
                   !.pc = "running",
                   !.call = StartProcessImage(b.images[b.k + 1].uri,
                                              b.images[b.k + 1].operations,
                                              FALSE, FALSE)]

\* processBatch(images, {onProgress}) up to its first await.  Besides the
\* locals results and completed, the record keeps what the batch did: how
\* each call settled, the calls of onProgress and the images whose failure
\* the catch block logged.
StartBatch(images) ==
    BatchNext([images |-> images, k |-> 0, pc |-> "running", call |-> NoCall,
               results |-> <<>>, completed |-> 0,
               settled |-> <<>>, progress |-> <<>>, logged |-> <<>>])

\* A processBatch whose catch block gives up the batch.
BatchStep_AbortOnFailure(b, outcome) ==
    IF ~Settled(b.call)
    THEN [b EXCEPT !.call = ProcessImageStep(@, outcome)]
    ELSE IF b.call.pc = "resolved"
         THEN BatchNext([b EXCEPT !.results = Append(@, b.call.result[1]),
                                  !.completed = @ + 1,
                                  !.settled = Append(@, "resolved"),
                                  !.progress = Append(@, <<b.completed + 1,
                                                           Len(b.images)>>)])
         ELSE [b EXCEPT !.pc = "rejected", !.settled = Append(@, "rejected")]

\* One step of processBatch: a step of the current call; or, the call
\* resolved, its result is kept, completed counted and onProgress called,
\* and if that throws the catch block logs it; or, the call rejected, the
\* catch block logs it and the image is skipped.
BatchStep(b, outcome) ==
    IF ~Settled(b.call)
    THEN [b EXCEPT !.call = ProcessImageStep(@, outcome)]
    ELSE IF b.call.pc = "resolved"
         THEN BatchNext([b EXCEPT !.results = Append(@, b.call.result[1]),
                                  !.completed = @ + 1,
                                  !.settled = Append(@, "resolved"),
                                  !.progress = Append(@, <<b.completed + 1,
                                                           Len(b.images)>>),
                                  !.logged = IF outcome = "progressThrows"
                                             THEN Append(@, b.k) ELSE @])
         ELSE BatchNext([b EXCEPT !.settled = Append(@, "rejected"),
                                  !.logged = Append(@, b.k)])

\* The batches handed to processBatch: none, one image, and an image with
\* an empty reference followed by a good one.
BatchLists ==
    {<<>>,
     <<[uri |-> LocalUri, operations |-> <<Rotate(90)>>]>>,
     <<[uri |-> EmptyUri, operations |-> <<>>],
       [uri |-> LocalUri, operations |-> <<Rotate(90)>>]>>}

\* The hook's processBatch up to its await.
HookProcessBatch(images) ==
    /\ fg = NoCall
    /\ hook.timers < MaxTimers
    /\ hook' = [hook EXCEPT !.isProcessing = TRUE,
                            !.progress = Percent(0, 1),
                            !.currentOperation = <<"Processing batch...">>]
    /\ fg' = [kind |-> "hookBatch", batch |-> StartBatch(images)]
    /\ UNCHANGED <<procVars, errorState, lastHandled>>

\* One step of the batch the hook awaits, with the hook's onProgress.
HookProcessBatchContinues ==
    /\ fg.kind = "hookBatch"
    /\ fg.batch.pc = "running"
    /\ \E o \in IF Settled(fg.batch.call) THEN {"ok"}
                ELSE Outcomes(fg.batch.call) \cap {"ok", "fail"} :
          LET b == BatchStep(fg.batch, o)
          IN  /\ fg' = [fg EXCEPT !.batch = b]
              /\ hook' = IF b.completed > fg.batch.completed
                         THEN [hook EXCEPT
                                 !.progress = Percent(b.completed * 100,
                                                      Len(b.images)),
                                 !.currentOperation =
                                     <<"Processing", b.completed, Len(b.images)>>]
                         ELSE hook
    /\ UNCHANGED <<procVars, errorState, lastHandled>>

\* The hook's processBatch after its await, and its finally block.
HookProcessBatchReturns ==
    /\ fg.kind = "hookBatch"
    /\ fg.batch.pc = "resolved"
    /\ fg' = NoCall
    /\ hook' = SetTimer([hook EXCEPT !.currentOperation = <<"Batch complete">>,
                                     !.progress = Percent(100, 1)])
    /\ UNCHANGED <<procVars, errorState, lastHandled>>

\* The hook's getProcessingStats.
HookGetProcessingStats ==
    /\ GetProcessingStats
    /\ UNCHANGED callerVars

\* The hook's clearCache.
HookClearCache ==
    /\ ClearCache
    /\ hook' = [hook EXCEPT !.currentOperation = <<"Cache cleared">>]
    /\ UNCHANGED <<fg, errorState, lastHandled>>

NextApp ==
    \/ HookProcessImage(LocalUri, <<Rotate(90)>>)
    \/ HookProcessImageContinues
    \/ HookProcessImageReturns
    \/ \E images \in BatchLists : HookProcessBatch(images)
    \/ HookProcessBatchContinues
    \/ HookProcessBatchReturns
    \/ HookQueueProcessing(LocalUri, <<Rotate(90)>>, "normal")
    \/ \E w \in LoopIds : HookJobStep(w)
    \/ \E w \in LoopIds : HookJobCompletes(w)
    \/ \E w \in LoopIds : HookJobFails(w)
    \/ \E w \in LoopIds : LoopContinues(w)
    \/ TimerFires
    \/ CancelProcessing
    \/ HookGetProcessingStats
    \/ HookClearCache

\* The hook in use: its calls, the worker, the timers and the store.
AppSpec == Init /\ [][NextApp]_vars

\* The error values handed to handleError.
ErrorCodes ==
    {Undefined, Null, Num(42), Str(<<"E_OTHER">>)}
        \cup {Str(<<ClassifyRules[k][1]>>) : k \in 1..Len(ClassifyRules)}

ErrorMessages ==
    {Undefined, Null, Num(42), Str(<<>>), Str(<<"Something failed">>),
     Str(<<"purchase", "storage">>)}
        \cup {Str(<<ClassifyRules[k][2]>>) : k \in 1..Len(ClassifyRules)}

ErrorValues ==
    {Undefined, Null, Str(<<"storage">>), Num(42)}
        \cup {Obj(code, message) : code \in ErrorCodes, message \in ErrorMessages}

\* handleError(error) called from anywhere.
HandleErrorCall(error) ==
    /\ Len(errorState.errorHistory) < MaxErrors
    /\ HandleError(error)
    /\ UNCHANGED <<procVars, fg, hook>>

\* The reducer clearError.
ClearError ==
    /\ errorState' = [errorState EXCEPT !.currentError = <<>>]
    /\ UNCHANGED <<procVars, fg, hook, lastHandled>>

NextError ==
    \/ \E error \in ErrorValues : HandleErrorCall(error)
    \/ ClearError

ErrorSpec == Init /\ [][NextError]_vars

\* The queue with callbacks that return normally, a worker that is scheduled
\* fairly and processImage calls that terminate.  One job at a time carries
\* the observer's mark (tracked), so that a formula can follow it from its
\* acceptance to its end; the mark is not program state.
TrackedLive == \E j \in Pending \cup InFlight : j.tracked

JobStepNormal(w) == JobStepWith(w, {"ok", "fail"})

Worker ==
    \/ \E w \in LoopIds : JobStepNormal(w)
    \/ \E w \in LoopIds : JobCompletes(w)
    \/ \E w \in LoopIds : JobFails(w)
    \/ \E w \in LoopIds : LoopContinues(w)

NextFair ==
    \/ \E p \in Priorities, ops \in JobOperations, t \in BOOLEAN :
          /\ t => ~TrackedLive
          /\ QueueProcessing(LocalUri, ops, p, t)
    \/ Worker

FairSpec == Init /\ [][NextFair]_vars /\ WF_vars(Worker)

\* ------------------------------------------------------------ cropImage

Min(a, b) == IF a < b THEN a ELSE b
Max(a, b) == IF a > b THEN a ELSE b

\* A width clamp that forgets the offset.
SafeSize_IgnoringOffset(size, limit, safeOffset) == Max(1, Min(size, limit))

\* Math.max(0, Math.min(x, imageInfo.width - 1)), and the same for y.
SafeOffset(offset, limit) == Max(0, Min(offset, limit - 1))

\* Math.max(1, Math.min(width, imageInfo.width - safeX)), and the same for
\* the height.
SafeSize(size, limit, safeOffset) == Max(1, Min(size, limit - safeOffset))

\* The cropData handed to ImageEditor.cropImage.
CropData(info, x, y, width, height) ==
    LET safeX == SafeOffset(x, info.width)
        safeY == SafeOffset(y, info.height)
        safeWidth == SafeSize(width, info.width, safeX)
        safeHeight == SafeSize(height, info.height, safeY)
    IN  [offset |-> [x |-> Round([num |-> safeX, den |-> 1]),
                     y |-> Round([num |-> safeY, den |-> 1])],
         size |-> [width |-> Round([num |-> safeWidth, den |-> 1]),
                   height |-> Round([num |-> safeHeight, den |-> 1])]]

\* The widths and heights of the images, and the crop requests.
Dimensions == 1..MaxDim
CropCoordinates == (0 - 1)..(MaxDim + 1)

\* cropImage(uri, x, y, width, height) on a local image, up to its await
\* of getImageInfo.
CropImageCall(x, y, width, height) ==
    /\ fg = NoCall
    /\ fg' = [kind |-> "crop", pc |-> "info",
              request |-> [x |-> x, y |-> y, width |-> width, height |-> height]]
    /\ UNCHANGED <<procVars, hook, errorState, lastHandled>>

\* getImageInfo resolves with the image's dimensions; the rectangle is
\* computed and handed to the native cropper.
CropImageClamps(w, h) ==
    /\ fg.kind = "crop"
    /\ fg.pc = "info"
    /\ fg' = [kind |-> "crop", pc |-> "native", request |-> fg.request,
              imageInfo |-> [width |-> w, height |-> h],
              cropData |-> CropData([width |-> w, height |-> h],
                                    fg.request.x, fg.request.y,
                                    fg.request.width, fg.request.height)]
    /\ UNCHANGED <<procVars, hook, errorState, lastHandled>>

\* The native cropper settles and cropImage returns or rethrows.
CropImageReturns ==
    /\ fg.kind = "crop"
    /\ fg.pc = "native"
    /\ fg' = NoCall
    /\ UNCHANGED <<procVars, hook, errorState, lastHandled>>

NextCrop ==
    \/ \E x, y, width, height \in CropCoordinates :
          CropImageCall(x, y, width, height)
    \/ \E w, h \in Dimensions : CropImageClamps(w, h)
    \/ CropImageReturns

CropSpec == Init /\ [][NextCrop]_vars

\* ------------------------------------------------- processBatch directly

\* The images of a batch: one whose operation can fail, one from the photo
\* library without operations, and one with an empty reference.
BatchImages ==
    {[uri |-> LocalUri, operations |-> <<Rotate(90)>>],
     [uri |-> PhotosUri, operations |-> <<>>],
     [uri |-> EmptyUri, operations |-> <<>>]}

\* imageProcessor.processBatch(images, {onProgress}).
ProcessBatch(images) ==
    /\ fg = NoCall
    /\ fg' = [kind |-> "batch", batch |-> StartBatch(images)]
    /\ UNCHANGED <<procVars, hook, errorState, lastHandled>>

\* One step of the batch; the caller's onProgress may throw.
ProcessBatchContinues ==
    /\ fg.kind = "batch"
    /\ fg.batch.pc = "running"
    /\ \E o \in IF Settled(fg.batch.call)
                THEN IF fg.batch.call.pc = "resolved"
                     THEN {"ok", "progressThrows"} ELSE {"ok"}
                ELSE Outcomes(fg.batch.call) :
          fg' = [fg EXCEPT !.batch = BatchStep(@, o)]
    /\ UNCHANGED <<procVars, hook, errorState, lastHandled>>

\* The caller takes the results.
ProcessBatchReturns ==
    /\ fg.kind = "batch"
    /\ fg.batch.pc \in {"resolved", "rejected"}
    /\ fg' = NoCall
    /\ UNCHANGED <<procVars, hook, errorState, lastHandled>>

NextBatch ==
    \/ \E images \in UNION {[1..n -> BatchImages] : n \in 0..MaxBatch} :
          ProcessBatch(images)
    \/ ProcessBatchContinues
    \/ ProcessBatchReturns

BatchSpec == Init /\ [][NextBatch]_vars

\* ------------------------------------ withErrorHandling and retryOperation

\* The callers that can have a wrapped operation in flight at once.
Slots == {1, 2}

IdleCall == [kind |-> "idle", pc |-> "idle"]

\* The wrapped calls in flight, by caller.
Wrapped ==
    IF fg.kind = "wrapped" THEN fg.calls ELSE [s \in Slots |-> IdleCall]

SetWrapped(calls) ==
    fg' = IF \A s \in Slots : calls[s] = IdleCall
          THEN NoCall
          ELSE [kind |-> "wrapped", calls |-> calls]

\* The reducer setLoading.
SetLoading(state, loading) == [state EXCEPT !.isLoading = loading]

\* What an operation rejects with: an Error with a text, and an object
\* whose message is a number.
OperationErrors == {Obj(Undefined, Str(<<"network">>)), Obj(Undefined, Num(42))}

\* A wrapped call at its i-th attempt (i counted from 0, as in the code):
\* setLoading(true) has been dispatched and operation() is awaited.
Attempt(c, i) ==
    [c EXCEPT !.i = i, !.pc = "operation", !.invocations = @ + 1]

NewCall(kind, maxRetries) ==
    [kind |-> kind, maxRetries |-> maxRetries, i |-> 0, pc |-> "start",
     invocations |-> 0, waits |-> 0, lastError |-> Null, outcome |-> "none"]

\* withErrorHandling(operation) up to its await.
WithErrorHandling(s) ==
    /\ fg.kind \in {"idle", "wrapped"}
    /\ Wrapped[s] = IdleCall
    /\ SetWrapped([Wrapped EXCEPT ![s] = Attempt(NewCall("with", 1), 0)])
    /\ errorState' = SetLoading(errorState, TRUE)
    /\ UNCHANGED <<procVars, hook, lastHandled>>

\* retryOperation(operation, maxRetries) up to its first await; with
\* maxRetries < 1 the loop is skipped and handleError(null) runs at once.
RetryOperation(s, maxRetries) ==
    /\ fg.kind \in {"idle", "wrapped"}
    /\ Wrapped[s] = IdleCall
    /\ IF maxRetries >= 1
       THEN /\ SetWrapped([Wrapped EXCEPT
                             ![s] = Attempt(NewCall("retry", maxRetries), 0)])
            /\ errorState' = SetLoading(errorState, TRUE)
            /\ UNCHANGED lastHandled
       ELSE /\ Len(errorState.errorHistory) < MaxErrors
            /\ SetWrapped([Wrapped EXCEPT
                             ![s] = [NewCall("retry", maxRetries) EXCEPT
                                        !.pc = "returned", !.outcome = "null"]])
            /\ HandleErrorIn(errorState, Null)
    /\ UNCHANGED <<procVars, hook>>

\* operation() resolves: setLoading(false) and the result is returned.
OperationResolves(s) ==
    /\ fg.kind = "wrapped"
    /\ fg.calls[s].pc = "operation"
    /\ SetWrapped([fg.calls EXCEPT ![s].pc = "returned", ![s].outcome = "value"])
    /\ errorState' = SetLoading(errorState, FALSE)
    /\ UNCHANGED <<procVars, hook, lastHandled>>

\* operation() rejects: setLoading(false); then retryOperation waits if an
\* attempt is left; otherwise handleError is called with the error and
\* null is returned, unless handleError throws.
OperationRejects(s, error) ==
    /\ fg.kind = "wrapped"
    /\ fg.calls[s].pc = "operation"
    /\ IF fg.calls[s].i < fg.calls[s].maxRetries - 1
       THEN /\ SetWrapped([fg.calls EXCEPT ![s].pc = "wait",
                                           ![s].lastError = error,
                                           ![s].waits = @ + 1])
            /\ errorState' = SetLoading(errorState, FALSE)
            /\ UNCHANGED lastHandled
       ELSE /\ Len(errorState.errorHistory) < MaxErrors
            /\ SetWrapped([fg.calls EXCEPT
                             ![s].pc = IF ClassifyError(error) = "TypeError"
                                       THEN "rejected" ELSE "returned",
                             ![s].outcome = IF ClassifyError(error) = "TypeError"
                                            THEN "threw" ELSE "null",
                             ![s].lastError = error])
            /\ HandleErrorIn(SetLoading(errorState, FALSE), error)
    /\ UNCHANGED <<procVars, hook>>

\* The wait before the next attempt is over: i++, setLoading(true) and
\* operation() is called again.
WaitEnds(s) ==
    /\ fg.kind = "wrapped"
    /\ fg.calls[s].pc = "wait"
    /\ SetWrapped([fg.calls EXCEPT ![s] = Attempt(@, fg.calls[s].i + 1)])
    /\ errorState' = SetLoading(errorState, TRUE)
    /\ UNCHANGED <<procVars, hook, lastHandled>>

\* The caller takes what the wrapper returned or threw.
WrappedCallEnds(s) ==
    /\ fg.kind = "wrapped"
    /\ fg.calls[s].pc \in {"returned", "rejected"}
    /\ SetWrapped([fg.calls EXCEPT ![s] = IdleCall])
    /\ UNCHANGED <<procVars, hook, errorState, lastHandled>>

NextWrapped ==
    \/ \E s \in Slots : WithErrorHandling(s)
    \/ \E s \in Slots, maxRetries \in 0..MaxRetries : RetryOperation(s, maxRetries)
    \/ \E s \in Slots : OperationResolves(s)
    \/ \E s \in Slots, error \in OperationErrors : OperationRejects(s, error)
    \/ \E s \in Slots : WaitEnds(s)
    \/ \E s \in Slots : WrappedCallEnds(s)

WrappedSpec == Init /\ [][NextWrapped]_vars

\* ----------------------------------------------------- the error slice
\* The reducers of the error slice, dispatched in any order.  An error
\* carries its identifier, which createAppError builds from Date.now(): a
\* later error has a larger identifier.  The dispatching side counts the
\* actions it has sent (fg.dispatched), which bounds the run.
MaxDispatch == 3

\* An AppError as the slice sees it.
StoredError(id) ==
    [id |-> id, retryCount |-> 0] @@ CreateAppError("unknown")

\* The store after k errors have been set and none removed.
StoreAfter(k) ==
    [currentError |-> IF k = 0 THEN <<>> ELSE <<StoredError(k)>>,
     errorHistory |-> [i \in 1..k |-> StoredError(k + 1 - i)],
     isLoading |-> FALSE]

\* The histories a run starts from: empty, one error, one below the limit
\* and at the limit.
StartLengths == {0, 1, HistoryLimit - 1, HistoryLimit}

StoredIds(state) ==
    {state.errorHistory[i].id : i \in 1..Len(state.errorHistory)}
        \cup {state.currentError[i].id : i \in 1..Len(state.currentError)}

\* The identifier of the next error created.
NextErrorId(state) ==
    IF StoredIds(state) = {} THEN 1
    ELSE 1 + CHOOSE id \in StoredIds(state) : \A other \in StoredIds(state) : other <= id

RECURSIVE FilterOutId(_, _)
FilterOutId(history, id) ==
    IF history = <<>> THEN <<>>
    ELSE IF Head(history).id # id
         THEN <<Head(history)>> \o FilterOutId(Tail(history), id)
         ELSE FilterOutId(Tail(history), id)

\* The reducer clearErrorHistory.
ClearErrorHistory(state) == [state EXCEPT !.errorHistory = <<>>]

\* The reducer incrementRetryCount.
IncrementRetryCount(state) ==
    IF state.currentError # <<>>
    THEN [state EXCEPT !.currentError[1].retryCount = @ + 1]
    ELSE state

\* The reducer dismissError.
DismissError(state, id) ==
    [state EXCEPT !.errorHistory = FilterOutId(state.errorHistory, id),
                  !.currentError = IF state.currentError # <<>>
                                        /\ state.currentError[1].id = id
                                     THEN <<>> ELSE @]

\* The identifiers dismissError is dispatched with: the current error's,
\* the newest and the oldest of the history, and one that is not stored.
DismissedIds(state) ==
    LET history == state.errorHistory
    IN  {state.currentError[i].id : i \in 1..Len(state.currentError)}
            \cup {history[i].id : i \in {1, Len(history)} \cap 1..Len(history)}
            \cup {0}

InitHistory ==
    /\ processingQueue = <<>>
    /\ isProcessing = FALSE
    /\ loops = [w \in LoopIds |-> IdleLoop]
    /\ fg = [kind |-> "dispatching", dispatched |-> 0]
    /\ hook = [isProcessing |-> FALSE, progress |-> Percent(0, 1),
               currentOperation |-> <<"">>, timers |-> 0]
    /\ errorState \in {StoreAfter(k) : k \in StartLengths}
    /\ lastHandled = <<>>

Dispatch(state) ==
    /\ fg.kind = "dispatching"
    /\ fg.dispatched < MaxDispatch
    /\ fg' = [fg EXCEPT !.dispatched = @ + 1]
    /\ errorState' = state
    /\ UNCHANGED <<procVars, hook, lastHandled>>

DispatchSetError ==
    Dispatch(SetError(errorState, StoredError(NextErrorId(errorState))))

DispatchClearError == Dispatch([errorState EXCEPT !.currentError = <<>>])

DispatchClearErrorHistory == Dispatch(ClearErrorHistory(errorState))

DispatchSetLoading(loading) == Dispatch(SetLoading(errorState, loading))

DispatchIncrementRetryCount == Dispatch(IncrementRetryCount(errorState))

DispatchDismissError(id) == Dispatch(DismissError(errorState, id))

NextHistory ==
    \/ DispatchSetError
    \/ DispatchClearError
    \/ DispatchClearErrorHistory
    \/ \E loading \in BOOLEAN : DispatchSetLoading(loading)
    \/ DispatchIncrementRetryCount
    \/ \E id \in DismissedIds(errorState) : DispatchDismissError(id)

HistorySpec == InitHistory /\ [][NextHistory]_vars

\* ---------------------------------------------------- the editor slice
\* The reducers of the editor slice that touch the edit history, the text
\* elements and the filters, dispatched in any order.  The dispatching side
\* keeps the name of the reducer it dispatched last (fg.last) and the number
\* of actions it has sent (fg.dispatched), which bounds the run.
\* currentImage, currentTool, toolSettings, isProcessing, zoom, pan and
\* canvasSize and their reducers are left out: no reducer modelled here
\* reads them.
MaxEdits == 5

EditorInitial ==
    [undoStack |-> <<>>, redoStack |-> <<>>, selectedTextElement |-> <<>>,
     textElements |-> <<>>, filters |-> <<>>]

TextElements == {[id |-> "t1", text |-> "a"]}
TextUpdates == {[id |-> "t1", text |-> "b"]}
AppliedFilters == {[id |-> "f1", name |-> "sepia"], [id |-> "f2", name |-> "sepia"]}

\* ImageEditAction values: what is recorded for an added text element, an
\* updated text element and an added filter, and an action of a type the
\* helpers have no case for.
EditActions ==
    {[type |-> "ADD_TEXT", data |-> element] : element \in TextElements}
        \cup {[type |-> "UPDATE_TEXT", data |-> update] : update \in TextUpdates}
        \cup {[type |-> "ADD_FILTER", data |-> filter] : filter \in AppliedFilters}
        \cup {[type |-> "CROP", data |-> [id |-> "c1"]]}

RECURSIVE WithoutId(_, _)
WithoutId(list, id) ==
    IF list = <<>> THEN <<>>
    ELSE IF Head(list).id # id
         THEN <<Head(list)>> \o WithoutId(Tail(list), id)
         ELSE WithoutId(Tail(list), id)

RECURSIVE WithoutName(_, _)
WithoutName(list, name) ==
    IF list = <<>> THEN <<>>
    ELSE IF Head(list).name # name
         THEN <<Head(list)>> \o WithoutName(Tail(list), name)
         ELSE WithoutName(Tail(list), name)

Pop(stack) == SubSeq(stack, 1, Len(stack) - 1)
Top(stack) == stack[Len(stack)]

AddEditAction(state, action) ==
    [state EXCEPT !.undoStack = Append(@, action), !.redoStack = <<>>]

ApplyUndoAction(state, action) ==
    CASE action.type = "ADD_TEXT" ->
           [state EXCEPT !.textElements = WithoutId(@, action.data.id)]
      [] action.type = "ADD_FILTER" ->
           [state EXCEPT !.filters = WithoutId(@, action.data.id)]
      [] OTHER -> state

ApplyRedoAction(state, action) ==
    CASE action.type = "ADD_TEXT" ->
           [state EXCEPT !.textElements = Append(@, action.data)]
      [] action.type = "ADD_FILTER" ->
           [state EXCEPT !.filters = Append(@, action.data)]
      [] OTHER -> state

\* undo taking the oldest recorded action instead of the most recent one.
Undo_TakesOldest(state) ==
    IF Len(state.undoStack) > 0
    THEN ApplyUndoAction([state EXCEPT !.undoStack = Tail(@),
                                       !.redoStack = Append(@, Head(state.undoStack))],
                         Head(state.undoStack))
    ELSE state

Undo(state) ==
    IF Len(state.undoStack) > 0
    THEN ApplyUndoAction([state EXCEPT !.undoStack = Pop(@),
                                       !.redoStack = Append(@, Top(state.undoStack))],
                         Top(state.undoStack))
    ELSE state

Redo(state) ==
    IF Len(state.redoStack) > 0
    THEN ApplyRedoAction([state EXCEPT !.redoStack = Pop(@),
                                       !.undoStack = Append(@, Top(state.redoStack))],
                         Top(state.redoStack))
    ELSE state

AddTextElement(state, element) ==
    [state EXCEPT !.textElements = Append(@, element),
                  !.selectedTextElement = <<element.id>>]

\* find returns the first element with the id; Object.assign overwrites the
\* updated fields.
RECURSIVE AssignFirst(_, _)
AssignFirst(list, update) ==
    IF list = <<>> THEN <<>>
    ELSE IF Head(list).id = update.id
         THEN <<[Head(list) EXCEPT !.text = update.text]>> \o Tail(list)
         ELSE <<Head(list)>> \o AssignFirst(Tail(list), update)

UpdateTextElement(state, update) ==
    [state EXCEPT !.textElements = AssignFirst(@, update)]

RemoveTextElement(state, id) ==
    [state EXCEPT !.textElements = WithoutId(@, id),
                  !.selectedTextElement = IF @ = <<id>> THEN <<>> ELSE @]

AddFilter(state, filter) ==
    [state EXCEPT !.filters = Append(WithoutName(@, filter.name), filter)]

RemoveFilter(state, id) ==
    [state EXCEPT !.filters = WithoutId(@, id)]

ResetEditor(state) == EditorInitial

InitEditor ==
    /\ processingQueue = <<>>
    /\ isProcessing = FALSE
    /\ loops = [w \in LoopIds |-> IdleLoop]
    /\ fg = [kind |-> "editing", dispatched |-> 0, last |-> "none",
             editor |-> EditorInitial]
    /\ hook = [isProcessing |-> FALSE, progress |-> Percent(0, 1),
               currentOperation |-> <<"">>, timers |-> 0]
    /\ errorState = [currentError |-> <<>>, errorHistory |-> <<>>,
                     isLoading |-> FALSE]
    /\ lastHandled = <<>>

DispatchEdit(name, state) ==
    /\ fg.kind = "editing"
    /\ fg.dispatched < MaxEdits
    /\ fg' = [fg EXCEPT !.dispatched = @ + 1, !.last = name, !.editor = state]
    /\ UNCHANGED <<procVars, hook, errorState, lastHandled>>

DispatchAddEditAction(action) ==
    DispatchEdit("addEditAction", AddEditAction(fg.editor, action))
DispatchUndo == DispatchEdit("undo", Undo(fg.editor))
DispatchRedo == DispatchEdit("redo", Redo(fg.editor))
DispatchAddTextElement(element) ==
    DispatchEdit("addTextElement", AddTextElement(fg.editor, element))
DispatchUpdateTextElement(update) ==
    DispatchEdit("updateTextElement", UpdateTextElement(fg.editor, update))
DispatchRemoveTextElement(id) ==
    DispatchEdit("removeTextElement", RemoveTextElement(fg.editor, id))
DispatchAddFilter(filter) ==
    DispatchEdit("addFilter", AddFilter(fg.editor, filter))
DispatchRemoveFilter(id) ==
    DispatchEdit("removeFilter", RemoveFilter(fg.editor, id))
DispatchResetEditor == DispatchEdit("resetEditor", ResetEditor(fg.editor))

NextEditor ==
    \/ \E action \in EditActions : DispatchAddEditAction(action)
    \/ DispatchUndo
    \/ DispatchRedo
    \/ \E element \in TextElements : DispatchAddTextElement(element)
    \/ \E update \in TextUpdates : DispatchUpdateTextElement(update)
    \/ \E element \in TextElements : DispatchRemoveTextElement(element.id)
    \/ \E filter \in AppliedFilters : DispatchAddFilter(filter)
    \/ \E filter \in AppliedFilters : DispatchRemoveFilter(filter.id)
    \/ DispatchResetEditor

EditorSpec == InitEditor /\ [][NextEditor]_vars

\* --------------------------------------------------- the editor screen
\* EditorScreen's canvas state and edit history (useState hooks) and the
\* handlers that write them.  The handlers of the text, blur and filter
\* tools run in one piece; the crop and rotate handlers are async and run in
\* the pieces between their awaits, with the values of currentImageUri,
\* editHistory and currentEditIndex they closed over when they were called
\* (fg.pending).  An element's id is Date.now().toString(), modelled by the
\* number of handler steps taken so far (fg.dispatched), which also bounds
\* the run.
ScreenInitial ==
    [currentImageUri |-> LocalUri, textElements |-> <<>>,
     appliedFilters |-> <<>>, blurAreas |-> <<>>,
     editHistory |-> <<>>, currentEditIndex |-> -1]

\* addToHistory(action), from the editHistory and currentEditIndex of the
\* render the calling handler belongs to.
AddToHistory(screen, editHistory, currentEditIndex, action) ==
    LET newHistory == Append(SubSeq(editHistory, 1, currentEditIndex + 1), action)
    IN  [screen EXCEPT !.editHistory = newHistory,
                       !.currentEditIndex = Len(newHistory) - 1]

\* handleUndo; editHistory[currentEditIndex] is the (currentEditIndex + 1)-th
\* entry of the sequence.
HandleUndo(screen) ==
    IF screen.currentEditIndex >= 0
    THEN LET action == screen.editHistory[screen.currentEditIndex + 1]
             reversed ==
                 CASE action.type = "ADD_TEXT" ->
                        [screen EXCEPT !.textElements = WithoutId(@, action.data.id)]
                   [] action.type = "ADD_FILTER" ->
                        [screen EXCEPT !.appliedFilters = WithoutId(@, action.data.id)]
                   [] action.type = "ADD_BLUR" ->
                        [screen EXCEPT !.blurAreas = WithoutId(@, action.data.id)]
                   [] OTHER -> screen
         IN  [reversed EXCEPT !.currentEditIndex = screen.currentEditIndex - 1]
    ELSE screen

HandleRedo(screen) ==
    IF screen.currentEditIndex < Len(screen.editHistory) - 1
    THEN LET nextIndex == screen.currentEditIndex + 1
             action == screen.editHistory[nextIndex + 1]
             reapplied ==
                 CASE action.type = "ADD_TEXT" ->
                        [screen EXCEPT !.textElements = Append(@, action.data)]
                   [] action.type = "ADD_FILTER" ->
                        [screen EXCEPT !.appliedFilters = Append(@, action.data)]
                   [] action.type = "ADD_BLUR" ->
                        [screen EXCEPT !.blurAreas = Append(@, action.data)]
                   [] OTHER -> screen
         IN  [reapplied EXCEPT !.currentEditIndex = nextIndex]
    ELSE screen

InitScreen ==
    /\ processingQueue = <<>>
    /\ isProcessing = FALSE
    /\ loops = [w \in LoopIds |-> IdleLoop]
    /\ fg = [kind |-> "screen", dispatched |-> 0, last |-> "none",
             pending |-> <<>>, screen |-> ScreenInitial]
    /\ hook = [isProcessing |-> FALSE, progress |-> Percent(0, 1),
               currentOperation |-> <<"">>, timers |-> 0]
    /\ errorState = [currentError |-> <<>>, errorHistory |-> <<>>,
                     isLoading |-> FALSE]
    /\ lastHandled = <<>>

ScreenStep(name, screen, pending) ==
    /\ fg.kind = "screen"
    /\ fg.dispatched < MaxEdits
    /\ fg' = [fg EXCEPT !.dispatched = @ + 1, !.last = name,
                        !.screen = screen, !.pending = pending]
    /\ UNCHANGED <<procVars, hook, errorState, lastHandled>>

NewElement == [id |-> fg.dispatched + 1]

\* TextTool onApply.
TextApply ==
    ScreenStep("text",
               AddToHistory([fg.screen EXCEPT !.textElements = Append(@, NewElement)],
                            fg.screen.editHistory, fg.screen.currentEditIndex,
                            [type |-> "ADD_TEXT", data |-> NewElement]),
               fg.pending)

\* BlurTool onApply.
BlurApply ==
    ScreenStep("blur",
               AddToHistory([fg.screen EXCEPT !.blurAreas = Append(@, NewElement)],
                            fg.screen.editHistory, fg.screen.currentEditIndex,
                            [type |-> "ADD_BLUR", data |-> NewElement]),
               fg.pending)

\* BlurTool onUndo: removes the last blur area.
BlurUndo ==
    ScreenStep("blurUndo",
               IF Len(fg.screen.blurAreas) > 0
               THEN [fg.screen EXCEPT !.blurAreas = Pop(@)]
               ELSE fg.screen,
               fg.pending)

\* FilterTool onApply.
FilterApply ==
    ScreenStep("filter",
               AddToHistory([fg.screen EXCEPT !.appliedFilters = Append(@, NewElement)],
                            fg.screen.editHistory, fg.screen.currentEditIndex,
                            [type |-> "ADD_FILTER", data |-> NewElement]),
               fg.pending)

\* What an async handler closes over when it is called.
Closure(tool, pc) ==
    [tool |-> tool, pc |-> pc,
     currentImageUri |-> fg.screen.currentImageUri,
     editHistory |-> fg.screen.editHistory,
     currentEditIndex |-> fg.screen.currentEditIndex]

\* CropTool onApply, up to its await of processImage.
CropApply ==
    /\ fg.kind = "screen"
    /\ fg.pending = <<>>
    /\ ScreenStep("cropStarts", fg.screen, <<Closure("crop", "processing")>>)

\* processImage resolves: the canvas shows the result when its reference
\* differs, and the handler awaits getImageDimensions.
CropProcessed ==
    /\ fg.kind = "screen"
    /\ fg.pending # <<>>
    /\ fg.pending[1].pc = "processing"
    /\ LET call == fg.pending[1]
           processedUri == ApplyOperation(call.currentImageUri, Crop)
       IN  ScreenStep("cropProcessed",
                      IF processedUri # <<>> /\ processedUri # call.currentImageUri
                      THEN [fg.screen EXCEPT !.currentImageUri = processedUri]
                      ELSE fg.screen,
                      <<[call EXCEPT !.pc = "recording"]>>)

\* processImage rejects: the catch block shows an alert.
CropFails ==
    /\ fg.kind = "screen"
    /\ fg.pending # <<>>
    /\ fg.pending[1].pc = "processing"
    /\ ScreenStep("cropFails", fg.screen, <<>>)

\* RotateTool calls onRotate(processedUri, finalize): the canvas shows the
\* rotated image and the handler awaits getImageDimensions.
RotateApply(angle) ==
    /\ fg.kind = "screen"
    /\ fg.pending = <<>>
    /\ ScreenStep("rotateStarts",
                  [fg.screen EXCEPT !.currentImageUri = RotateImage(@, angle)],
                  <<Closure("rotate", "recording")>>)

\* The rest of the crop and rotate handlers: addToHistory.
ToolRecords ==
    /\ fg.kind = "screen"
    /\ fg.pending # <<>>
    /\ fg.pending[1].pc = "recording"
    /\ LET call == fg.pending[1]
       IN  ScreenStep("recorded",
                      AddToHistory(fg.screen, call.editHistory, call.currentEditIndex,
                                   IF call.tool = "crop"
                                   THEN [type |-> "CROP", data |-> [id |-> 0]]
                                   ELSE [type |-> "ROTATE",
                                         data |-> [uri |-> fg.screen.currentImageUri]]),
                      <<>>)

UndoPressed == ScreenStep("undo", HandleUndo(fg.screen), fg.pending)
RedoPressed == ScreenStep("redo", HandleRedo(fg.screen), fg.pending)

NextScreen ==
    \/ TextApply
    \/ BlurApply
    \/ BlurUndo
    \/ FilterApply
    \/ CropApply
    \/ CropProcessed
    \/ CropFails
    \/ \E angle \in {90} : RotateApply(angle)
    \/ ToolRecords
    \/ UndoPressed
    \/ RedoPressed

ScreenSpec == InitScreen /\ [][NextScreen]_vars

\* ------------------------------------------------------------- the claims

PriorityRank(p) ==
    CASE p = "high" -> 3
      [] p = "normal" -> 2
      [] OTHER -> 1

\* C1: at most one queued job is being processed at any time, and at most
\* one queue-draining loop is active, whatever the interleaving of
\* queueProcessing calls with the worker's steps.
C1_OneJobAtATime ==
    /\ Cardinality(ActiveLoops) <= 1
    /\ Cardinality(Processing) <= 1

\* C1 witness: jobs were queued while a job's processImage is in flight.
C1_QueuedWhileProcessing ==
    \E w \in LoopIds :
        /\ loops[w].pc = "awaiting"
        /\ loops[w].call.pc = "apply"
        /\ Len(processingQueue) >= 2

QueueOrdered(queue) ==
    \A a, b \in 1..Len(queue) :
        a < b => PriorityRank(queue[a].priority) >= PriorityRank(queue[b].priority)

\* A step in which the loop in slot w takes a job from the queue.
TakesJob(w) == loops[w].pc # "awaiting" /\ loops'[w].pc = "awaiting"

\* C2: the pending queue is always ordered by priority (no job behind a job
\* of strictly lower priority), and whenever the worker takes a job no job
\* left pending has a strictly higher priority than the job taken.
C2_PriorityOrder ==
    /\ []QueueOrdered(processingQueue)
    /\ [][\A w \in LoopIds :
            TakesJob(w) =>
                \A k \in 1..Len(processingQueue') :
                    PriorityRank(processingQueue'[k].priority)
                        <= PriorityRank(loops'[w].job.priority)]_vars

\* C2 witness: a later job of higher priority stands before an earlier job.
C2_Overtaken ==
    \E a, b \in 1..Len(processingQueue) :
        /\ a < b
        /\ processingQueue[a].id > processingQueue[b].id
        /\ processingQueue[a].priority # processingQueue[b].priority

JobCount == Cardinality(Pending \cup InFlight)

\* The number of pending jobs before the first low one.
BeforeFirstLow(queue) ==
    Cardinality({k \in 1..Len(queue) :
                    \A m \in 1..k : queue[m].priority # "low"})

\* C3: queueProcessing places the new job by its priority and keeps the
\* order of the pending jobs: high first, low last, normal immediately
\* before the first pending low job (last when there is none).  When the
\* worker is idle the job placed is taken at once.
C3_Placement ==
    [][JobCount' = JobCount + 1 =>
        LET idle == \E w \in LoopIds : TakesJob(w)
            taken == {loops'[w].job : w \in {v \in LoopIds : TakesJob(v)}}
            placed == IF idle
                      THEN <<CHOOSE j \in taken : TRUE>> \o processingQueue'
                      ELSE processingQueue'
            new == CHOOSE k \in 1..Len(placed) : placed[k].id = JobCount + 1
            j == placed[new]
            m == BeforeFirstLow(processingQueue)
        IN  /\ Len(placed) = Len(processingQueue) + 1
            /\ \A k \in 1..Len(processingQueue) :
                  processingQueue[k] = placed[IF k < new THEN k ELSE k + 1]
            /\ j.priority = "high" => new = 1
            /\ j.priority = "low" => new = Len(placed)
            /\ j.priority = "normal" => new = m + 1]_vars

\* C3 witness: the latest job, a normal one, stands between a pending job
\* and the first pending low job.
C3_NormalBeforeLow ==
    \E k \in 2..(Len(processingQueue) - 1) :
        /\ processingQueue[k].id = JobCount
        /\ processingQueue[k].priority = "normal"
        /\ processingQueue[k + 1].priority = "low"

\* The tracked job has been accepted and its callbacks have not run.
TrackedAccepted ==
    \/ \E k \in 1..Len(processingQueue) : processingQueue[k].tracked
    \/ \E w \in LoopIds : loops[w].pc = "awaiting" /\ loops[w].job.tracked

\* The tracked job was taken and its onComplete or onError has run.
TrackedDone ==
    \E w \in LoopIds : loops[w].pc = "callback" /\ loops[w].job.tracked

\* The position of the tracked job in the queue, 0 when it is not pending.
TrackedPos(queue) ==
    IF \E k \in 1..Len(queue) : queue[k].tracked
    THEN CHOOSE k \in 1..Len(queue) : queue[k].tracked
    ELSE 0

\* A step that places a job ahead of the pending tracked job.
PlacedAhead ==
    /\ TrackedPos(processingQueue) > 0
    /\ TrackedPos(processingQueue') > TrackedPos(processingQueue)

\* C4 as stated: every accepted job is eventually taken and finishes with
\* completion or failure, whatever jobs are queued before or after it.
C4_EveryJobFinishes == TrackedAccepted ~> TrackedDone

\* C4 as amended: every accepted job is eventually taken and finishes,
\* unless jobs keep being placed ahead of it in the queue for ever.
C4_FinishesUnlessOvertakenForever ==
    ([]<><<PlacedAhead>>_vars) \/ (TrackedAccepted ~> TrackedDone)

\* C4 witness: the tracked job has finished while an older job is still
\* pending, so it waited in the queue and was taken from it.
C4_TrackedTakenAndDone ==
    \E w \in LoopIds :
        /\ loops[w].pc = "callback"
        /\ loops[w].job.tracked
        /\ loops[w].job.id >= 2
        /\ Len(processingQueue) >= 1

\* The left fold of applyOperation over the first n operations.
RECURSIVE FoldOperations(_, _, _)
FoldOperations(uri, ops, n) ==
    IF n = 0 THEN uri
    ELSE ApplyOperation(FoldOperations(uri, ops, n - 1), ops[n])

\* C5: processImage applies the operations in list order as a linear fold:
\* the k-th application is of operation k, its input is the reference the
\* application before it returned (the input reference for the first), and
\* the reference handed to output generation, and the result's, is the fold
\* over the whole list.
C5_LinearFold ==
    fg.kind = "single" =>
        LET c == fg.call
            n == Len(c.operations)
            starts == EventsOf(c, "apply")
            ends == EventsOf(c, "applied")
            outs == EventsOf(c, "output")
        IN  /\ Len(ends) <= Len(starts) /\ Len(starts) <= Len(ends) + 1
            /\ Len(starts) <= n
            /\ \A k \in 1..Len(starts) :
                  /\ starts[k].i = k
                  /\ starts[k].uri = FoldOperations(c.imageUri, c.operations, k - 1)
            /\ \A k \in 1..Len(ends) :
                  /\ ends[k].i = k
                  /\ ends[k].uri = FoldOperations(c.imageUri, c.operations, k)
            /\ Len(outs) <= 1
            /\ \A k \in 1..Len(outs) :
                  /\ Len(ends) = n
                  /\ outs[k].uri = FoldOperations(c.imageUri, c.operations, n)
                  /\ c.log[Len(c.log)] = outs[k]
            /\ c.pc = "resolved" =>
                  /\ Len(outs) = 1
                  /\ c.result[1].processedUri
                        = FoldOperations(c.imageUri, c.operations, n)

\* C5 witness: a call over two different operations that both change the
\* reference has resolved.
C5_TwoOperationsApplied ==
    /\ fg.kind = "single"
    /\ fg.call.pc = "resolved"
    /\ Len(fg.call.operations) = 2
    /\ fg.call.operations[1] # fg.call.operations[2]
    /\ LET first == ApplyOperation(fg.call.imageUri, fg.call.operations[1])
       IN  /\ first # fg.call.imageUri
           /\ fg.call.result[1].processedUri # first

\* C6 as stated: the onProgress call that carries the fraction of operation
\* k is made only after operation k has been applied.
C6_ProgressAfterApplied ==
    fg.kind = "single" =>
        \A p \in 1..Len(fg.call.log) :
            fg.call.log[p].ev = "progress" =>
                \E q \in 1..(p - 1) :
                    /\ fg.call.log[q].ev = "applied"
                    /\ fg.call.log[q].i = fg.call.log[p].i

\* C7: a call ends with a result or with an Error, never both and never a
\* partial result.  A rejected call carries the wrapped message, no result,
\* and nothing of an operation after the one that failed (no application
\* and no onProgress call past the first operation not applied); a settled
\* call takes no further step.  A resolved call has applied every operation
\* and its result names the input reference and the input list.
C7_ResultOrFailure ==
    /\ [](fg.kind = "single" =>
            LET c == fg.call
                n == Len(c.operations)
                applied == Len(EventsOf(c, "applied"))
            IN  /\ (c.result # <<>>) <=> (c.pc = "resolved")
                /\ (c.error # <<>>) <=> (c.pc = "rejected")
                /\ c.pc = "rejected" =>
                      /\ Len(c.error) = 2
                      /\ c.error[1] = FailurePrefix
                      /\ \A p \in 1..Len(c.log) : c.log[p].i <= applied + 1
                      /\ applied < n => EventsOf(c, "output") = <<>>
                /\ c.pc = "resolved" =>
                      /\ Len(c.result) = 1
                      /\ c.result[1].originalUri = c.imageUri
                      /\ c.result[1].operations = c.operations
                      /\ applied = n)
    /\ [][fg.kind = "single" /\ Settled(fg.call) => fg' = NoCall]_vars

\* C7 witness: the first of two operations failed.
C7_FirstOperationFailed ==
    /\ fg.kind = "single"
    /\ fg.call.pc = "rejected"
    /\ Len(fg.call.operations) = 2
    /\ fg.call.log # <<>>
    /\ fg.call.log[Len(fg.call.log)] = ApplyEvent(1, fg.call.imageUri)

\* The pending jobs in order, without the identifiers the model gives them.
QueueContent(queue) == [k \in 1..Len(queue) |-> [queue[k] EXCEPT !.id = 0]]

\* A step in which queueProcessing accepts a job.
AcceptsJob == JobCount' = JobCount + 1

\* A step of the hook's clearCache.
ClearsCache ==
    /\ hook'.currentOperation = <<"Cache cleared">>
    /\ hook.currentOperation # <<"Cache cleared">>

\* C8 as stated: every step that changes the pending queue is a step of the
\* queue-draining loop, and queueProcessing, like processImage, processBatch
\* and clearCache, leaves the queue unchanged.
C8_OnlyTheLoopTouchesQueue ==
    [][/\ QueueContent(processingQueue)' # QueueContent(processingQueue)
            => loops' # loops
       /\ AcceptsJob \/ fg' # fg \/ ClearsCache
            => QueueContent(processingQueue)' = QueueContent(processingQueue)]_vars

\* C8, amended: the pending queue changes only when queueProcessing inserts
\* the one job it accepts and when processQueue takes the head; the steps of
\* processImage, processBatch, getProcessingStats and clearCache leave it
\* unchanged.
C8_QueueTouchedByInsertAndTake ==
    [][/\ QueueContent(processingQueue)' # QueueContent(processingQueue)
            => \/ /\ AcceptsJob
                  /\ \E k \in 1..Len(processingQueue') :
                        QueueContent(processingQueue) =
                            QueueContent(SubSeq(processingQueue', 1, k - 1)
                                \o SubSeq(processingQueue', k + 1,
                                          Len(processingQueue')))
               \/ /\ ~AcceptsJob
                  /\ \E w \in LoopIds : TakesJob(w)
                  /\ QueueContent(processingQueue') =
                        Tail(QueueContent(processingQueue))
       /\ fg' # fg \/ ClearsCache
            => processingQueue' = processingQueue]_vars

\* A job was queued behind another while a batch went on to complete an
\* image and the worker was busy.
C8_BatchRanBesidePendingJobs ==
    /\ Len(processingQueue) >= 2
    /\ fg.kind = "hookBatch"
    /\ fg.batch.completed >= 1
    /\ Processing # {}

\* A step of cancelProcessing that changes the hook's state.
CancelStep ==
    /\ hook'.currentOperation = <<"Cancelled">>
    /\ hook'.timers = hook.timers
    /\ hook' # hook

Categories ==
    {"storage_full", "large_image", "export_failed", "permission_denied",
     "network_error", "iap_failed", "unknown"}

\* C10 as stated: handleError always returns, and the error it was handed
\* becomes the store's currentError under one of the seven categories,
\* the one its code or message selects.
C10_EveryErrorClassified ==
    [][lastHandled' # lastHandled =>
          /\ ~lastHandled'[1].threw
          /\ errorState'.currentError # <<>>
          /\ errorState'.currentError[1].type \in Categories
          /\ errorState'.currentError[1].type
                = ClassifyError(lastHandled'[1].error)]_vars

\* C11: for an image of width W >= 1 and height H >= 1 and any integer crop
\* request, the rectangle handed to the native cropper lies inside the
\* image: 0 <= offset.x <= W - 1, 0 <= offset.y <= H - 1, size.width >= 1,
\* size.height >= 1, offset.x + size.width <= W, offset.y + size.height <= H.
C11_CropWithinBounds ==
    fg.kind = "crop" /\ fg.pc = "native" =>
        LET W == fg.imageInfo.width
            H == fg.imageInfo.height
            offset == fg.cropData.offset
            size == fg.cropData.size
        IN  /\ 0 <= offset.x /\ offset.x <= W - 1
            /\ 0 <= offset.y /\ offset.y <= H - 1
            /\ size.width >= 1
            /\ size.height >= 1
            /\ offset.x + size.width <= W
            /\ offset.y + size.height <= H

\* A request with a negative x, an oversized width, a y beyond the image
\* and a zero height has been clamped.
C11_OutOfBoundsRequestClamped ==
    /\ fg.kind = "crop"
    /\ fg.pc = "native"
    /\ fg.request.x < 0
    /\ fg.request.width > fg.imageInfo.width
    /\ fg.request.y >= fg.imageInfo.height
    /\ fg.request.height = 0
    /\ fg.imageInfo.width >= 2

\* The positions of the images of a batch whose call resolved, in order.
RECURSIVE Succeeded(_, _)
Succeeded(settled, n) ==
    IF n = 0 THEN <<>>
    ELSE IF settled[n] = "resolved"
         THEN Append(Succeeded(settled, n - 1), n)
         ELSE Succeeded(settled, n - 1)

\* C12: processBatch takes the images one at a time in input order and goes
\* on past failures: it never rejects, it returns only when every image's
\* call has settled, its results are the results of the images that
\* succeeded, one each and in input order, and onProgress is called once
\* per success with the running count of successes.
C12_BatchContinuesPastFailures ==
    fg.kind = "batch" =>
        LET b == fg.batch
            done == Succeeded(b.settled, Len(b.settled))
        IN  /\ b.pc # "rejected"
            /\ b.k <= Len(b.images)
            /\ Len(b.settled) = IF b.pc = "resolved" THEN Len(b.images)
                                ELSE b.k - 1
            /\ b.k >= 1 /\ b.pc = "running" => b.call.imageUri = b.images[b.k].uri
            /\ Len(b.results) = Len(done)
            /\ \A j \in 1..Len(done) :
                  /\ b.results[j].originalUri = b.images[done[j]].uri
                  /\ b.results[j].operations = b.images[done[j]].operations
            /\ b.progress = [j \in 1..Len(done) |-> <<j, Len(b.images)>>]
            /\ b.completed = Len(done)

\* A batch returned after its first image failed and its second succeeded.
C12_SecondImageAfterFailure ==
    /\ fg.kind = "batch"
    /\ fg.batch.pc = "resolved"
    /\ fg.batch.settled = <<"rejected", "resolved">>
    /\ Len(fg.batch.results) = 1

\* C13 as stated: a failing job never blocks the queue.  When the callbacks
\* of a job whose processing failed are over, onError has been called, and
\* the worker takes the next pending job or, with none pending, ends with
\* the flag cleared.
C13_FailingJobNeverBlocks ==
    [][\A w \in LoopIds :
          /\ loops[w].pc = "callback"
          /\ loops[w].call.pc = "rejected"
          /\ loops'[w].pc # "callback"
          => /\ \E k \in 1..Len(loops[w].cbs) : loops[w].cbs[k] = "onError"
             /\ IF Len(processingQueue) > 0
                THEN /\ loops'[w].pc = "awaiting"
                     /\ Len(processingQueue') = Len(processingQueue) - 1
                ELSE ~isProcessing']_vars

\* C14 as stated: for every job taken from the queue exactly one terminal
\* callback is invoked, once: onComplete if its processing succeeded,
\* onError if it failed, whatever the callbacks do.
C14_ExactlyOneTerminalCallback ==
    \A w \in LoopIds :
        loops[w].pc = "callback" =>
            loops[w].cbs = IF loops[w].call.pc = "resolved"
                           THEN <<"onComplete">> ELSE <<"onError">>

\* C15 as stated: the flag isProcessing is true exactly when a
\* queue-draining loop is active, so that jobs are never pending without
\* an active worker, whatever the callbacks do.
C15_FlagIffLoopActive ==
    /\ isProcessing <=> ActiveLoops # {}
    /\ Len(processingQueue) > 0 => ActiveLoops # {}

\* C16 as stated: jobs of equal priority are started in the order in which
\* they were queued.  Whenever the worker takes a job, no job left pending
\* with the same priority was queued before it.
C16_FifoWithinPriority ==
    [][\A w \in LoopIds :
          TakesJob(w) =>
              \A k \in 1..Len(processingQueue') :
                  processingQueue'[k].priority = loops'[w].job.priority
                      => processingQueue'[k].id > loops'[w].job.id]_vars

\* The progress values of a call, as the events that reported them.
ProgressValues(c) == EventsOf(c, "progress")

\* C17: in a processImage run over n operations that succeeds, onProgress
\* is called exactly n times; the i-th call reports i * 100 / n, so the
\* values increase strictly, lie in (0, 100] and end with 100; with no
\* operations onProgress is not called.
C17_ProgressValues ==
    fg.kind = "single" /\ fg.call.onProgress /\ fg.call.pc = "resolved" =>
        LET p == ProgressValues(fg.call)
            n == Len(fg.call.operations)
        IN  /\ Len(p) = n
            /\ \A i \in 1..n :
                  /\ p[i].den > 0
                  /\ p[i].num * n = i * 100 * p[i].den
                  /\ p[i].num > 0
                  /\ p[i].num <= 100 * p[i].den
            /\ \A i \in 1..(n - 1) :
                  p[i].num * p[i + 1].den < p[i + 1].num * p[i].den
            /\ n >= 1 => p[n].num = 100 * p[n].den

\* A run over two operations resolved after reporting 50 and 100.
C17_TwoStepsReported ==
    /\ fg.kind = "single"
    /\ fg.call.onProgress
    /\ fg.call.pc = "resolved"
    /\ Len(fg.call.operations) = 2
    /\ Len(ProgressValues(fg.call)) = 2
    /\ ProgressValues(fg.call)[1].num * 2 = 100 * ProgressValues(fg.call)[1].den

\* The retryOperation calls in flight.
Retrying == {s \in Slots : Wrapped[s].kind = "retry"}

\* C18 as stated: retryOperation invokes the operation at most maxRetries
\* times, one attempt after the other with a wait between two attempts and
\* none after the last; it returns the value of the first attempt that
\* succeeds without recording an error, and when every attempt failed it
\* records exactly one error, classified from the last failure, and
\* returns null.  It always returns.
C18_RetryTerminates ==
    /\ [](\A s \in Retrying :
            LET c == Wrapped[s]
            IN  /\ c.invocations <= c.maxRetries
                /\ c.pc # "rejected"
                /\ c.pc = "operation" => c.invocations = c.i + 1 /\ c.waits = c.i
                /\ c.pc = "wait" => c.waits = c.invocations
                /\ c.pc = "returned" /\ c.outcome = "value"
                      => c.waits = c.invocations - 1
                /\ c.pc = "returned" /\ c.outcome = "null" /\ c.maxRetries >= 1
                      => c.invocations = c.maxRetries
                         /\ c.waits = c.maxRetries - 1)
    /\ [][\A s \in Slots :
            /\ Wrapped[s].pc # "returned"
            /\ Wrapped'[s].kind = "retry"
            /\ Wrapped'[s].pc = "returned"
            => IF Wrapped'[s].outcome = "value"
               THEN errorState'.errorHistory = errorState.errorHistory
               ELSE /\ Len(errorState'.errorHistory)
                          = Len(errorState.errorHistory) + 1
                    /\ errorState'.errorHistory[1].type
                          = ClassifyError(Wrapped'[s].lastError)
                    /\ errorState'.currentError
                          = <<errorState'.errorHistory[1]>>]_vars

\* C20 as stated: the store's isLoading flag is true whenever an operation
\* started by withErrorHandling or retryOperation has not settled, and
\* false once all of them have settled.
C20_LoadingIffOperationInFlight ==
    errorState.isLoading <=> \E s \in Slots : Wrapped[s].pc = "operation"

\* C19 as stated: the hook's isProcessing flag is true at every moment at
\* which a processImage or processBatch call started through the hook is
\* in flight, whatever calls came before it and however cancelProcessing
\* is used.
C19_HookFlagWhileInFlight ==
    fg.kind \in {"hookSingle", "hookBatch"} => hook.isProcessing

NewestFirst(history) ==
    \A i \in 1..Len(history) - 1 : history[i].id > history[i + 1].id

\* A step of setError: an error that was not in the store becomes current.
SetsError ==
    /\ errorState'.currentError # <<>>
    /\ errorState'.currentError[1].id \notin StoredIds(errorState)

\* C21: errorHistory never holds more than 50 errors and is ordered newest
\* first; after setError the new error is currentError and the first entry
\* of errorHistory, followed by the former entries in their order, of which
\* exactly the oldest are left out when there were already 50.
C21_HistoryBounded ==
    [][/\ Len(errorState'.errorHistory) <= 50
       /\ NewestFirst(errorState'.errorHistory)
       /\ SetsError =>
            LET old == errorState.errorHistory
                new == errorState'.errorHistory
                kept == IF Len(old) < 50 THEN Len(old) ELSE 49
            IN  /\ errorState'.currentError = <<new[1]>>
                /\ Len(new) = kept + 1
                /\ \A i \in 1..kept : new[i + 1] = old[i]]_vars

\* The fifty-first error has been set: the history holds fifty errors, the
\* newest is current and the oldest one is gone.
C21_OldestDropped ==
    /\ Len(errorState.errorHistory) = 50
    /\ errorState.currentError = <<errorState.errorHistory[1]>>
    /\ errorState.errorHistory[1].id = 51
    /\ errorState.errorHistory[50].id = 2

RECURSIVE Reverse(_)
Reverse(list) ==
    IF list = <<>> THEN <<>> ELSE Reverse(Tail(list)) \o <<Head(list)>>

\* The recorded actions in the order of their recording: the actions to
\* undo, then the undone ones from the most recently undone.
Recorded(state) == state.undoStack \o Reverse(state.redoStack)

\* C22: addEditAction pushes the action on undoStack and empties redoStack;
\* undo moves the last action of undoStack onto redoStack, redo moves the
\* last action of redoStack back onto undoStack, and each changes nothing
\* when its stack is empty; undo and redo keep the recorded actions and
\* their order.
C22_StackDiscipline ==
    [][LET old == fg.editor
           new == fg'.editor
       IN  /\ fg'.last = "addEditAction" =>
                /\ Len(new.undoStack) = Len(old.undoStack) + 1
                /\ Pop(new.undoStack) = old.undoStack
                /\ Top(new.undoStack) \in EditActions
                /\ new.redoStack = <<>>
           /\ fg'.last = "undo" =>
                IF old.undoStack = <<>> THEN new = old
                ELSE /\ new.undoStack = Pop(old.undoStack)
                     /\ new.redoStack = Append(old.redoStack, Top(old.undoStack))
           /\ fg'.last = "redo" =>
                IF old.redoStack = <<>> THEN new = old
                ELSE /\ new.redoStack = Pop(old.redoStack)
                     /\ new.undoStack = Append(old.undoStack, Top(old.redoStack))
           /\ fg'.last \in {"undo", "redo"} => Recorded(new) = Recorded(old)]_vars

\* Two actions were recorded, both undone and the first one redone.
C22_UndoneTwiceRedoneOnce ==
    /\ fg.kind = "editing"
    /\ fg.last = "redo"
    /\ Len(fg.editor.undoStack) = 1
    /\ Len(fg.editor.redoStack) = 1
    /\ fg.editor.undoStack[1] # fg.editor.redoStack[1]

\* The part of the editor state that undo and redo work on.
EditingState(state) ==
    [undoStack |-> state.undoStack, redoStack |-> state.redoStack,
     textElements |-> state.textElements, filters |-> state.filters]

\* C23: with an action to undo, undo followed at once by redo leaves
\* undoStack, redoStack, textElements and filters as they were before the
\* undo, whatever the type of the action.
C23_UndoRedoIdentity ==
    (fg.kind = "editing" /\ fg.editor.undoStack # <<>>)
        => EditingState(Redo(Undo(fg.editor))) = EditingState(fg.editor)

\* C24: the filters list never holds two filters with the same name.
C24_OneFilterPerName ==
    fg.kind = "editing" =>
        \A i \in 1..Len(fg.editor.filters) : \A j \in 1..Len(fg.editor.filters) :
            fg.editor.filters[i].name = fg.editor.filters[j].name => i = j

\* What the canvas shows.
Canvas(screen) ==
    [currentImageUri |-> screen.currentImageUri,
     textElements |-> screen.textElements,
     appliedFilters |-> screen.appliedFilters,
     blurAreas |-> screen.blurAreas]

\* The canvas before the edit that the step records: for the text, blur and
\* filter tools the canvas before the step, for crop and rotate that canvas
\* with the image the handler was called with.
CanvasBeforeEdit ==
    IF fg'.last = "recorded"
    THEN [Canvas(fg.screen) EXCEPT !.currentImageUri = fg.pending[1].currentImageUri]
    ELSE Canvas(fg.screen)

\* C25: when an edit has been recorded, undoing it gives the canvas as it was
\* before the edit (image reference, text elements, filters, blur areas),
\* and currentEditIndex is always between -1 and the last position of
\* editHistory.
C25_UndoRestoresCanvas ==
    [][/\ fg'.last \in {"text", "blur", "filter", "recorded"}
            => Canvas(HandleUndo(fg'.screen)) = CanvasBeforeEdit
       /\ fg'.screen.currentEditIndex >= -1
       /\ fg'.screen.currentEditIndex <= Len(fg'.screen.editHistory) - 1]_vars

=============================================================================
